---- MODULE Spec2Model ----
(***************************************************************************)
(* A model of the permission-aware dispatcher of the "user-specific data" *)
(* tool (src/src/Agent/Tools/FireBaseTool.py): the record helpers          *)
(* _get_personal_data and _check_document_status, the store helpers, and   *)
(* the dispatcher get_user_specific_data_tool, one action per step between *)
(* its suspension points.                                                  *)
(*                                                                         *)
(* Strings whose characters the code inspects (lower(), replace(),         *)
(* title(), "in") are sequences of one-character strings.  A JSON or       *)
(* Firestore value is a tagged record (Val).  A Python dict is a sequence  *)
(* of key/value entries in insertion order with distinct keys.  A message  *)
(* returned to the caller is the text of its template plus the values put  *)
(* into it.                                                                *)
(***************************************************************************)
EXTENDS Integers, Sequences, FiniteSets, TLC

VARIABLES
    \* ---- one request to get_user_specific_data_tool ----
    dbClient,          \* TRUE when the db_client argument is present
    store,             \* the users collection: sequence of [id, doc]
    callerId,          \* the user_id argument
    pc,                \* the position of the coroutine
    user_doc,          \* local user_doc (a Val: none, or a map-free dict)
    user_role,         \* local user_role
    available_actions, \* local available_actions (sequence of action names)
    routerOut,         \* what chain.ainvoke produced
    target_id,         \* local target_id
    target_doc,        \* local target_doc
    result,            \* what the coroutine returned (or that it raised)
    calls,             \* how often each collaborator was called
    readOf,            \* whose record the formatter / matcher was given
    \* ---- a direct call of one record helper ----
    unit,              \* [fn, doc, arg, out, pc]
    \* ---- a second request served by the same event loop ----
    peer               \* the locals of the coroutine that is not running

vars == << dbClient, store, callerId, pc, user_doc, user_role,
           available_actions, routerOut, target_id, target_doc, result,
           calls, readOf, unit, peer >>

(***************************************************************************)
(* Characters and strings                                                  *)
(***************************************************************************)
UpperChars == << "A","B","C","D","E","F","G","H","I","J","K","L","M",
                 "N","O","P","Q","R","S","T","U","V","W","X","Y","Z" >>

LowerChars == << "a","b","c","d","e","f","g","h","i","j","k","l","m",
                 "n","o","p","q","r","s","t","u","v","w","x","y","z" >>

IsUpper(c) == \E i \in 1..26 : UpperChars[i] = c

IsLower(c) == \E i \in 1..26 : LowerChars[i] = c

IsLetter(c) == IsUpper(c) \/ IsLower(c)

LowerChar(c) ==
    IF IsUpper(c) THEN LowerChars[CHOOSE i \in 1..26 : UpperChars[i] = c] ELSE c

UpperChar(c) ==
    IF IsLower(c) THEN UpperChars[CHOOSE i \in 1..26 : LowerChars[i] = c] ELSE c

\* str.lower()
lower(s) == [i \in 1..Len(s) |-> LowerChar(s[i])]

\* str.title(): a letter that follows a non-letter is upper-cased, any other
\* letter is lower-cased
title(s) ==
    [i \in 1..Len(s) |->
        IF i = 1 \/ ~IsLetter(s[i-1]) THEN UpperChar(s[i]) ELSE LowerChar(s[i])]

\* str.capitalize()
capitalize(s) ==
    [i \in 1..Len(s) |-> IF i = 1 THEN UpperChar(s[i]) ELSE LowerChar(s[i])]

\* needle in hay, for strings
Contains(hay, needle) ==
    \E off \in 0..(Len(hay) - Len(needle)) :
        SubSeq(hay, off + 1, off + Len(needle)) = needle

\* str.replace(" ", "")
RemoveSpaces(s) == SelectSeq(s, LAMBDA c : c # " ")

\* str.replace(old, new), old non-empty
RECURSIVE replace(_, _, _)
replace(s, old, new) ==
    IF Len(s) < Len(old) THEN s
    ELSE IF SubSeq(s, 1, Len(old)) = old
         THEN new \o replace(SubSeq(s, Len(old) + 1, Len(s)), old, new)
         ELSE << s[1] >> \o replace(Tail(s), old, new)

s_name == << "n","a","m","e" >>
s_email == << "e","m","a","i","l" >>
s_role == << "r","o","l","e" >>
s_position == << "p","o","s","i","t","i","o","n" >>
s_department == << "d","e","p","a","r","t","m","e","n","t" >>
s_baseSalary == << "b","a","s","e","S","a","l","a","r","y" >>
s_bonus == << "b","o","n","u","s" >>
s_annualLeaveDays == << "a","n","n","u","a","l","L","e","a","v","e","D","a","y","s" >>
s_sickLeaveDays == << "s","i","c","k","L","e","a","v","e","D","a","y","s" >>
s_joinDate == << "j","o","i","n","D","a","t","e" >>
s_Start_Date == << "S","t","a","r","t"," ","D","a","t","e" >>
s_uploadedDocuments == << "u","p","l","o","a","d","e","d","D","o","c","u","m","e","n","t","s" >>
s_resubmissionRequested == << "r","e","s","u","b","m","i","s","s","i","o","n","R","e","q","u","e","s","t","e","d" >>
s_all == << "a","l","l" >>
s_salary == << "s","a","l","a","r","y" >>
s_Salary == << "S","a","l","a","r","y" >>
s_Bonus == << "B","o","n","u","s" >>
s_Documents_Submitted == << "D","o","c","u","m","e","n","t","s"," ","S","u","b","m","i","t","t","e","d" >>
s_Resubmission_Required_For == << "R","e","s","u","b","m","i","s","s","i","o","n"," ","R","e","q","u","i","r","e","d"," ","F","o","r" >>
s_The_user == << "T","h","e"," ","u","s","e","r" >>
s_the_user == << "t","h","e"," ","u","s","e","r" >>
s_employee == << "e","m","p","l","o","y","e","e" >>
s_new == << "n","e","w" >>
s_hr == << "h","r" >>

(***************************************************************************)
(* Values and dicts                                                        *)
(***************************************************************************)
\* t: "none" (None / null), "str", "num", "map" (a dict of flags),
\*    "dict" (a user document), "list" (a list of strings)
NoneVal == [t |-> "none", s |-> << >>, n |-> 0, m |-> << >>]

Str(cs) == [t |-> "str", s |-> cs, n |-> 0, m |-> << >>]

Num(k) == [t |-> "num", s |-> << >>, n |-> k, m |-> << >>]

\* a dict from document name to flag: entries [k, f]
Map(entries) == [t |-> "map", s |-> << >>, n |-> 0, m |-> entries]

\* a user document: entries [k, v]
Dict(entries) == [t |-> "dict", s |-> << >>, n |-> 0, m |-> entries]

\* Python truthiness: "not x" is ~Truthy(x)
Truthy(v) ==
    CASE v.t = "none" -> FALSE
      [] v.t = "str"  -> v.s # << >>
      [] v.t = "num"  -> v.n # 0
      [] OTHER        -> v.m # << >>

\* key in d
HasKey(d, k) == \E i \in 1..Len(d) : d[i].k = k

\* d.get(k, default), for a user document
Get(d, k, default) ==
    IF HasKey(d, k) THEN d[CHOOSE i \in 1..Len(d) : d[i].k = k].v ELSE default

\* d.get(k), for a dict of flags: the flag, falsy when the key is missing
Flag(m, k) == \E i \in 1..Len(m) : m[i].k = k /\ m[i].f

(***************************************************************************)
(* What a function call produces: a returned text or an exception          *)
(***************************************************************************)
\* one value put into a text; fmt says how the f-string renders it
Arg(label, fmt, v) == [label |-> label, fmt |-> fmt, v |-> v]

Return(text, args) == [raised |-> FALSE, text |-> text, args |-> args]

Raise == [raised |-> TRUE, text |-> "", args |-> << >>]

NoResult == [raised |-> FALSE, text |-> "<pending>", args |-> << >>]

\* f"${value:,.2f}" raises unless value is a number
MoneyOk(v) == v.t = "num"

(***************************************************************************)
(* The texts of the record helpers                                         *)
(***************************************************************************)
MsgSpecifyInfo ==
    "Please specify what personal information you'd like to know."

MsgSummary ==
    "Here is a summary for {name}:"

MsgFieldValue ==
    "The value for '{doc_key}' for {name} is: {doc_value}"

MsgTotalCompensation ==
    "{name.capitalize()}'s total compensation is ${base + bonus:,.2f}."

MsgSalaryUnavailable ==
    "Salary information is not available for {name}."

MsgFieldNotFound ==
    "I'm sorry, I couldn't find information about '{field}' in {name}'s records."

MsgSpecifyDocument ==
    "Please specify which document you'd like to check."

MsgResubmit ==
    "Action required for {name}: They need to resubmit their '{resub_key}'."

MsgSubmitted ==
    "Yes, the '{up_key}' for {name} has been successfully submitted and approved."

MsgNoDocInfo ==
    "There is no information regarding the document '{document_name}' for {name}."

(***************************************************************************)
(* _get_personal_data                                                      *)
(***************************************************************************)
ordered_keys ==
    << s_name, s_email, s_role, s_position, s_department,
       s_baseSalary, s_bonus, s_annualLeaveDays, s_sickLeaveDays >>

display_key(key) == title(replace(key, s_joinDate, s_Start_Date))

\* the line appended for one key of ordered_keys that is in the document
SummaryLine(d, key) ==
    LET value == Get(d, key, NoneVal)
    IN  IF key = s_baseSalary THEN Arg(s_Salary, "money", value)
        ELSE IF key = s_bonus THEN Arg(s_Bonus, "money", value)
        ELSE Arg(display_key(key), "plain", value)

\* the loop running over the document's keys instead of ordered_keys
SummaryKeys_record_order(d) ==
    SelectSeq([i \in 1..Len(d) |-> d[i].k],
              LAMBDA key : \E j \in 1..Len(ordered_keys) : ordered_keys[j] = key)

\* the keys the loop appends a line for, in the order it visits them
SummaryKeys(d) == SelectSeq(ordered_keys, LAMBDA key : HasKey(d, key))

\* the documents of a flag dict whose flag is set, in the dict's order
FlaggedDocs(m) == SelectSeq(m, LAMBDA e : e.f)

\* ", ".join(names) is a non-empty string
JoinedNonEmpty(es) == Len(es) >= 2 \/ (Len(es) = 1 /\ es[1].k # << >>)

\* the optional line for one of the two flag dicts
DocsLine(d, key, label) ==
    LET docs == Get(d, key, NoneVal)
    IN  IF Truthy(docs) /\ JoinedNonEmpty(FlaggedDocs(docs.m))
        THEN << Arg(label, "join", Map(FlaggedDocs(docs.m))) >>
        ELSE << >>

\* the branch field_lower == "all"
PersonalSummary(d, name) ==
    LET keys == SummaryKeys(d)
        bad(key) == key \in {s_baseSalary, s_bonus} /\ ~MoneyOk(Get(d, key, NoneVal))
    IN  IF \E i \in 1..Len(keys) : bad(keys[i])
        THEN Raise
        ELSE Return(MsgSummary,
                    << Arg(<< >>, "plain", name) >>
                    \o [i \in 1..Len(keys) |-> SummaryLine(d, keys[i])]
                    \o DocsLine(d, s_uploadedDocuments, s_Documents_Submitted)
                    \o DocsLine(d, s_resubmissionRequested, s_Resubmission_Required_For))

\* the branches for one named field with the "salary" branch tried first
PersonalField_salary_first(d, name, field) ==
    LET field_lower == lower(field.s)
        hits == {i \in 1..Len(d) : lower(d[i].k) = field_lower}
    IN  IF field_lower = s_salary
        THEN IF HasKey(d, s_baseSalary)
             THEN LET base  == Get(d, s_baseSalary, Num(0))
                      bonus == Get(d, s_bonus, Num(0))
                  IN  IF name.t = "str" /\ base.t = "num" /\ bonus.t = "num"
                      THEN Return(MsgTotalCompensation,
                                  << Arg(<< >>, "plain", Str(capitalize(name.s))),
                                     Arg(<< >>, "money", Num(base.n + bonus.n)) >>)
                      ELSE Raise
             ELSE Return(MsgSalaryUnavailable,
                         << Arg(<< >>, "plain", name) >>)
        ELSE IF hits # {}
        THEN LET i == CHOOSE h \in hits : \A g \in hits : h <= g
             IN  Return(MsgFieldValue,
                        << Arg(<< >>, "plain", Str(d[i].k)),
                           Arg(<< >>, "plain", name),
                           Arg(<< >>, "plain", d[i].v) >>)
        ELSE Return(MsgFieldNotFound,
                    << Arg(<< >>, "plain", field), Arg(<< >>, "plain", name) >>)

\* the branches for one named field
PersonalField(d, name, field) ==
    LET field_lower == lower(field.s)
        hits == {i \in 1..Len(d) : lower(d[i].k) = field_lower}
    IN  IF hits # {}
        THEN LET i == CHOOSE h \in hits : \A g \in hits : h <= g
             IN  Return(MsgFieldValue,
                        << Arg(<< >>, "plain", Str(d[i].k)),
                           Arg(<< >>, "plain", name),
                           Arg(<< >>, "plain", d[i].v) >>)
        ELSE IF field_lower = s_salary
        THEN IF HasKey(d, s_baseSalary)
             THEN LET base  == Get(d, s_baseSalary, Num(0))
                      bonus == Get(d, s_bonus, Num(0))
                  IN  IF name.t = "str" /\ base.t = "num" /\ bonus.t = "num"
                      THEN Return(MsgTotalCompensation,
                                  << Arg(<< >>, "plain", Str(capitalize(name.s))),
                                     Arg(<< >>, "money", Num(base.n + bonus.n)) >>)
                      ELSE Raise
             ELSE Return(MsgSalaryUnavailable,
                         << Arg(<< >>, "plain", name) >>)
        ELSE Return(MsgFieldNotFound,
                    << Arg(<< >>, "plain", field), Arg(<< >>, "plain", name) >>)

\* def _get_personal_data(user_doc, field): d is the document's entries
get_personal_data(d, field) ==
    IF ~Truthy(field)
    THEN Return(MsgSpecifyInfo, << >>)
    ELSE IF field.t # "str"
    THEN Raise
    ELSE LET name == Get(d, s_name, Str(s_The_user))
         IN  IF lower(field.s) = s_all
             THEN PersonalSummary(d, name)
             ELSE PersonalField(d, name, field)

(***************************************************************************)
(* _check_document_status                                                  *)
(***************************************************************************)
\* find_robust_key with the loop running to its end: the last matching key
find_robust_key_last(data_map, target_key_from_llm) ==
    LET clean_target == RemoveSpaces(lower(target_key_from_llm))
        hits == {i \in 1..Len(data_map) :
                    Contains(RemoveSpaces(lower(data_map[i].k)), clean_target)}
    IN  IF hits = {}
        THEN NoneVal
        ELSE Str(data_map[CHOOSE h \in hits : \A g \in hits : h >= g].k)

\* find_robust_key matching nothing when the cleaned target is empty
find_robust_key_nonempty_target(data_map, target_key_from_llm) ==
    LET clean_target == RemoveSpaces(lower(target_key_from_llm))
        hits == {i \in 1..Len(data_map) :
                    /\ clean_target # << >>
                    /\ Contains(RemoveSpaces(lower(data_map[i].k)), clean_target)}
    IN  IF hits = {}
        THEN NoneVal
        ELSE Str(data_map[CHOOSE h \in hits : \A g \in hits : h <= g].k)

\* the inner function: the first key, in the dict's order, whose normal form
\* contains the normal form of the requested name; None when there is none
find_robust_key(data_map, target_key_from_llm) ==
    LET clean_target == RemoveSpaces(lower(target_key_from_llm))
        hits == {i \in 1..Len(data_map) :
                    Contains(RemoveSpaces(lower(data_map[i].k)), clean_target)}
    IN  IF hits = {}
        THEN NoneVal
        ELSE Str(data_map[CHOOSE h \in hits : \A g \in hits : h <= g].k)

\* one of the two "if map := ...: if key := ...: if map.get(key):" blocks
MapFires(d, mapKey, document_name) ==
    LET data_map == Get(d, mapKey, NoneVal)
    IN  /\ Truthy(data_map)
        /\ Truthy(find_robust_key(data_map.m, document_name.s))
        /\ Flag(data_map.m, find_robust_key(data_map.m, document_name.s).s)

\* _check_document_status with its two blocks in the other order
check_document_status_uploaded_first(d, document_name) ==
    IF ~Truthy(document_name)
    THEN Return(MsgSpecifyDocument, << >>)
    ELSE LET name      == Get(d, s_name, Str(s_the_user))
             resub_map == Get(d, s_resubmissionRequested, NoneVal)
             up_map    == Get(d, s_uploadedDocuments, NoneVal)
         IN  IF document_name.t # "str" /\ (Truthy(resub_map) \/ Truthy(up_map))
             THEN Raise
             ELSE IF MapFires(d, s_uploadedDocuments, document_name)
             THEN Return(MsgSubmitted,
                         << Arg(<< >>, "plain",
                                find_robust_key(up_map.m, document_name.s)),
                            Arg(<< >>, "plain", name) >>)
             ELSE IF MapFires(d, s_resubmissionRequested, document_name)
             THEN Return(MsgResubmit,
                         << Arg(<< >>, "plain", name),
                            Arg(<< >>, "plain",
                                find_robust_key(resub_map.m, document_name.s)) >>)
             ELSE Return(MsgNoDocInfo,
                         << Arg(<< >>, "plain", document_name),
                            Arg(<< >>, "plain", name) >>)

\* def _check_document_status(user_doc, document_name)
check_document_status(d, document_name) ==
    IF ~Truthy(document_name)
    THEN Return(MsgSpecifyDocument, << >>)
    ELSE LET name      == Get(d, s_name, Str(s_the_user))
             resub_map == Get(d, s_resubmissionRequested, NoneVal)
             up_map    == Get(d, s_uploadedDocuments, NoneVal)
         IN  IF document_name.t # "str" /\ (Truthy(resub_map) \/ Truthy(up_map))
             THEN Raise
             ELSE IF MapFires(d, s_resubmissionRequested, document_name)
             THEN Return(MsgResubmit,
                         << Arg(<< >>, "plain", name),
                            Arg(<< >>, "plain",
                                find_robust_key(resub_map.m, document_name.s)) >>)
             ELSE IF MapFires(d, s_uploadedDocuments, document_name)
             THEN Return(MsgSubmitted,
                         << Arg(<< >>, "plain",
                                find_robust_key(up_map.m, document_name.s)),
                            Arg(<< >>, "plain", name) >>)
             ELSE Return(MsgNoDocInfo,
                         << Arg(<< >>, "plain", document_name),
                            Arg(<< >>, "plain", name) >>)

(***************************************************************************)
(* Direct calls of the record helpers.  The request's variables rest.      *)
(***************************************************************************)
requestVars == << dbClient, store, callerId, pc, user_doc, user_role,
                  available_actions, routerOut, target_id, target_doc,
                  result, calls, readOf, peer >>

\* failed: the store call that raised ("" while none has)
NoCalls == [fetch |-> 0, router |-> 0, lookup |-> 0, query |-> 0, count |-> 0,
            failed |-> ""]

NoRouterOut == [kind |-> "none", hasAction |-> FALSE, action |-> "",
                hasParams |-> FALSE, params |-> NoneVal]

\* no second request
NoPeer == [callerId |-> "", pc |-> "absent", user_doc |-> NoneVal,
           user_role |-> NoneVal, available_actions |-> << >>,
           routerOut |-> NoRouterOut, target_id |-> NoneVal,
           target_doc |-> NoneVal, result |-> NoResult, calls |-> NoCalls,
           readOf |-> "none"]

RequestIdle ==
    /\ peer = NoPeer
    /\ dbClient = FALSE
    /\ store = << >>
    /\ callerId = ""
    /\ pc = "idle"
    /\ user_doc = NoneVal
    /\ user_role = NoneVal
    /\ available_actions = << >>
    /\ routerOut = NoRouterOut
    /\ target_id = NoneVal
    /\ target_doc = NoneVal
    /\ result = NoResult
    /\ calls = NoCalls
    /\ readOf = "none"

UnitIdle == [fn |-> "none", doc |-> << >>, arg |-> NoneVal, out |-> NoResult,
             pc |-> "idle"]

UnitCall(fn, d, a) == [fn |-> fn, doc |-> d, arg |-> a, out |-> NoResult,
                       pc |-> "call"]

\* ---- the inputs of _check_document_status ----
MaxDocKeys == 2

k_ID_Card == << "I","D"," ","C","a","r","d" >>
k_Nat_ID == << "N","a","t"," ","I","D" >>
k_Bank == << "B","a","n","k" >>
n_Salma == << "S","a","l","m","a" >>
e_salma == << "s","@","x",".","c","o" >>
v_na == << "n","/","a" >>

DocKeyPool == { k_ID_Card, k_Nat_ID, k_Bank }

FlagEntries == { [k |-> k, f |-> f] : k \in DocKeyPool, f \in BOOLEAN }

\* the flag dicts of at most MaxDocKeys distinct keys, in every order
FlagDicts ==
    UNION { { m \in [1..n -> FlagEntries] :
                \A i, j \in 1..n : i # j => m[i].k # m[j].k } : n \in 0..MaxDocKeys }

\* a dict field that may be missing: no entry, or one entry
OptField(k, vals) == { << >> } \cup { << [k |-> k, v |-> v] >> : v \in vals }

DocRecords ==
    { n \o r \o u :
        n \in OptField(s_name, { Str(n_Salma) }),
        r \in OptField(s_resubmissionRequested, { Map(m) : m \in FlagDicts }),
        u \in OptField(s_uploadedDocuments, { Map(m) : m \in FlagDicts }) }

DocNames ==
    { NoneVal, Num(7), Str(<< >>), Str(<< " " >>), Str(<< "i","d" >>),
      Str(<< "I"," ","D" >>), Str(<< "c","a","r","d" >>),
      Str(<< "b","a","n","k" >>), Str(<< "t","a","x" >>) }

InitDoc ==
    /\ RequestIdle
    /\ unit \in { UnitCall("check_document_status", d, a) :
                    d \in DocRecords, a \in DocNames }

CallCheckDocumentStatus ==
    /\ unit.pc = "call"
    /\ unit.fn = "check_document_status"
    /\ unit' = [unit EXCEPT !.out = check_document_status(unit.doc, unit.arg),
                            !.pc = "returned"]
    /\ UNCHANGED requestVars

NextDoc == CallCheckDocumentStatus

SpecDoc == InitDoc /\ [][NextDoc]_vars

(***************************************************************************)
(* Properties of _check_document_status                                    *)
(***************************************************************************)
\* lower-cased, spaces removed
NormalForm(s) == RemoveSpaces(lower(s))

\* the normal form of the stored key contains the normal form of the name
KeyMatches(key, requested) == Contains(NormalForm(key), NormalForm(requested))

\* the entries of one of the record's two flag dicts (none when it is missing)
FlagDictOf(d, k) == Get(d, k, Map(<< >>)).m

\* the matching keys whose flag is true
MatchingTrue(m, requested) ==
    { i \in 1..Len(m) : KeyMatches(m[i].k, requested) /\ m[i].f }

\* the first matching key in iteration order, when its flag is true
FirstMatchingTrue(m, requested) ==
    { i \in 1..Len(m) : /\ KeyMatches(m[i].k, requested)
                        /\ m[i].f
                        /\ \A j \in 1..(i - 1) : ~KeyMatches(m[j].k, requested) }

\* _check_document_status has returned for a non-empty requested name
DocReturned ==
    /\ unit.fn = "check_document_status"
    /\ unit.pc = "returned"
    /\ unit.arg.t = "str"
    /\ unit.arg.s # << >>

\* C8 as stated: whenever some matching key of resubmissionRequested has flag
\* true and some matching key of uploadedDocuments has flag true, the result
\* is the resubmission-required message.
C8_AnyTrueResubmissionKeyWins ==
    DocReturned =>
        LET r == FlagDictOf(unit.doc, s_resubmissionRequested)
            u == FlagDictOf(unit.doc, s_uploadedDocuments)
        IN  (MatchingTrue(r, unit.arg.s) # {} /\ MatchingTrue(u, unit.arg.s) # {})
                => unit.out.text = MsgResubmit

\* C8 amended: whenever the FIRST matching key of resubmissionRequested (in
\* iteration order) has flag true and some matching key of uploadedDocuments
\* has flag true, the result is the resubmission-required message and never
\* the submitted-and-approved message.
C8_FirstResubmissionKeyWins ==
    DocReturned =>
        LET r == FlagDictOf(unit.doc, s_resubmissionRequested)
            u == FlagDictOf(unit.doc, s_uploadedDocuments)
        IN  (FirstMatchingTrue(r, unit.arg.s) # {} /\ MatchingTrue(u, unit.arg.s) # {})
                => /\ unit.out.text = MsgResubmit
                   /\ unit.out.text # MsgSubmitted

\* the spec's example: "ID Card" flagged in both dicts, "id" requested
C8_Witness ==
    /\ DocReturned
    /\ unit.arg = Str(<< "i","d" >>)
    /\ FlagDictOf(unit.doc, s_resubmissionRequested) = << [k |-> k_ID_Card, f |-> TRUE] >>
    /\ FlagDictOf(unit.doc, s_uploadedDocuments) = << [k |-> k_ID_Card, f |-> TRUE] >>
    /\ unit.out.text = MsgResubmit

\* C9 as stated: (a) a matching resubmissionRequested key with flag true
\* gives the action-required message naming such a key; (b) when that message
\* does not fire and a matching uploadedDocuments key has flag true, the
\* result is the submitted-and-approved message; (c) the no-information
\* message is returned only when no matching key has flag true in either dict.
C9_AnyMatchingTrueKeyDecides ==
    DocReturned =>
        LET r == FlagDictOf(unit.doc, s_resubmissionRequested)
            u == FlagDictOf(unit.doc, s_uploadedDocuments)
            R == MatchingTrue(r, unit.arg.s)
            U == MatchingTrue(u, unit.arg.s)
        IN  /\ R # {} => /\ unit.out.text = MsgResubmit
                         /\ \E i \in R : unit.out.args[2].v = Str(r[i].k)
            /\ (unit.out.text # MsgResubmit /\ U # {}) => unit.out.text = MsgSubmitted
            /\ unit.out.text = MsgNoDocInfo => (R = {} /\ U = {})

\* C9 amended: in each dict only the first key in iteration order whose
\* normal form contains the normal form of the requested name counts.  If
\* that key of resubmissionRequested has flag true the result is the
\* action-required message naming it; otherwise, if that key of
\* uploadedDocuments has flag true, the result is the submitted-and-approved
\* message naming it; otherwise the result is the no-information message.
C9_FirstMatchingKeyDecides ==
    DocReturned =>
        LET d    == unit.doc
            r    == FlagDictOf(d, s_resubmissionRequested)
            u    == FlagDictOf(d, s_uploadedDocuments)
            R1   == FirstMatchingTrue(r, unit.arg.s)
            U1   == FirstMatchingTrue(u, unit.arg.s)
            name == Get(d, s_name, Str(s_the_user))
        IN  /\ R1 # {} =>
                \E i \in R1 :
                    unit.out = Return(MsgResubmit,
                                      << Arg(<< >>, "plain", name),
                                         Arg(<< >>, "plain", Str(r[i].k)) >>)
            /\ (R1 = {} /\ U1 # {}) =>
                \E i \in U1 :
                    unit.out = Return(MsgSubmitted,
                                      << Arg(<< >>, "plain", Str(u[i].k)),
                                         Arg(<< >>, "plain", name) >>)
            /\ (R1 = {} /\ U1 = {}) =>
                unit.out = Return(MsgNoDocInfo,
                                  << Arg(<< >>, "plain", unit.arg),
                                     Arg(<< >>, "plain", name) >>)

\* two matching keys, the first not flagged and the second flagged: the
\* second is never looked at
C9_Witness ==
    /\ DocReturned
    /\ unit.arg = Str(<< "i","d" >>)
    /\ FlagDictOf(unit.doc, s_resubmissionRequested)
         = << [k |-> k_ID_Card, f |-> FALSE], [k |-> k_Nat_ID, f |-> TRUE] >>
    /\ FlagDictOf(unit.doc, s_uploadedDocuments) = << >>
    /\ unit.out.text = MsgNoDocInfo

\* _check_document_status has returned for a requested name that is not
\* empty and holds spaces only
SpacesOnlyAsked ==
    /\ DocReturned
    /\ \A i \in 1..Len(unit.arg.s) : unit.arg.s[i] = " "

\* C20: a requested name of spaces only does not get the clarification
\* prompt; its normal form is the empty string, which every stored key
\* contains, so the first key of each non-empty dict is the one found and
\* the flags of those first keys alone decide: resubmissionRequested first,
\* then uploadedDocuments, else the no-information message.
C20_SpacesOnlyMatchesFirstKeys ==
    SpacesOnlyAsked =>
        LET d    == unit.doc
            r    == FlagDictOf(d, s_resubmissionRequested)
            u    == FlagDictOf(d, s_uploadedDocuments)
            name == Get(d, s_name, Str(s_the_user))
        IN  /\ unit.out.text # MsgSpecifyDocument
            /\ NormalForm(unit.arg.s) = << >>
            /\ \A k \in DocKeyPool : KeyMatches(k, unit.arg.s)
            /\ unit.out =
                  IF r # << >> /\ r[1].f
                  THEN Return(MsgResubmit,
                              << Arg(<< >>, "plain", name),
                                 Arg(<< >>, "plain", Str(r[1].k)) >>)
                  ELSE IF u # << >> /\ u[1].f
                  THEN Return(MsgSubmitted,
                              << Arg(<< >>, "plain", Str(u[1].k)),
                                 Arg(<< >>, "plain", name) >>)
                  ELSE Return(MsgNoDocInfo,
                              << Arg(<< >>, "plain", unit.arg),
                                 Arg(<< >>, "plain", name) >>)

\* one space asked for: the first resubmission key is not flagged (the
\* second is), the first uploaded key is "Bank" and flagged
C20_Witness ==
    /\ SpacesOnlyAsked
    /\ unit.arg = Str(<< " " >>)
    /\ FlagDictOf(unit.doc, s_resubmissionRequested)
         = << [k |-> k_ID_Card, f |-> FALSE], [k |-> k_Nat_ID, f |-> TRUE] >>
    /\ FlagDictOf(unit.doc, s_uploadedDocuments)
         = << [k |-> k_Bank, f |-> TRUE], [k |-> k_ID_Card, f |-> FALSE] >>
    /\ unit.out.text = MsgSubmitted
    /\ unit.out.args[1].v = Str(k_Bank)

(***************************************************************************)
(* Direct calls of _get_personal_data                                      *)
(***************************************************************************)
MaxFields == 3

v_IT == << "I","T" >>
v_dev == << "d","e","v" >>
v_All == << "A","l","l" >>
v_Email == << "E","m","a","i","l" >>
v_age == << "a","g","e" >>

\* the fields a user document can hold, each with the values it can have
InfoEntries ==
    { [k |-> s_name, v |-> Str(n_Salma)],
      [k |-> s_email, v |-> Str(e_salma)],
      [k |-> s_role, v |-> Str(s_employee)],
      [k |-> s_position, v |-> Str(v_dev)],
      [k |-> s_department, v |-> Str(v_IT)],
      [k |-> s_baseSalary, v |-> Num(10)],
      [k |-> s_baseSalary, v |-> Str(v_na)],
      [k |-> s_bonus, v |-> Num(2)],
      [k |-> s_annualLeaveDays, v |-> Num(21)],
      [k |-> s_sickLeaveDays, v |-> Num(3)],
      [k |-> s_joinDate, v |-> Num(2024)],
      [k |-> s_salary, v |-> Num(99)],
      [k |-> s_Salary, v |-> Num(77)],
      [k |-> s_uploadedDocuments,
       v |-> Map(<< [k |-> k_Bank, f |-> TRUE], [k |-> k_ID_Card, f |-> FALSE],
                    [k |-> k_Nat_ID, f |-> TRUE] >>)],
      [k |-> s_resubmissionRequested,
       v |-> Map(<< [k |-> k_ID_Card, f |-> TRUE] >>)],
      [k |-> s_resubmissionRequested,
       v |-> Map(<< [k |-> k_ID_Card, f |-> FALSE] >>)] }

\* the documents of at most MaxFields fields, in every insertion order
InfoRecords ==
    UNION { { d \in [1..n -> InfoEntries] :
                \A i, j \in 1..n : i # j => d[i].k # d[j].k } : n \in 0..MaxFields }

InfoFields == { NoneVal, Str(s_all), Str(v_All), Str(s_salary), Str(s_Salary),
                Str(v_Email), Str(v_age) }

InitInfo ==
    /\ RequestIdle
    /\ unit \in { UnitCall("get_personal_data", d, a) :
                    d \in InfoRecords, a \in InfoFields }

CallGetPersonalData ==
    /\ unit.pc = "call"
    /\ unit.fn = "get_personal_data"
    /\ unit' = [unit EXCEPT !.out = get_personal_data(unit.doc, unit.arg),
                            !.pc = "returned"]
    /\ UNCHANGED requestVars

NextInfo == CallGetPersonalData

SpecInfo == InitInfo /\ [][NextInfo]_vars

(***************************************************************************)
(* Properties of _get_personal_data                                        *)
(***************************************************************************)
\* the order the summary lists the fields in
SummaryOrder ==
    << s_name, s_email, s_role, s_position, s_department, s_baseSalary,
       s_bonus, s_annualLeaveDays, s_sickLeaveDays >>

\* the fields of that order the document holds, in that order
FieldsHeld(d) == SelectSeq(SummaryOrder, LAMBDA key : HasKey(d, key))

\* the documents flagged in one of the flag dicts, in the dict's order
FlaggedIn(d, key) == SelectSeq(FlagDictOf(d, key), LAMBDA e : e.f)

\* the document with its fields inserted in the order p
Reordered(d, p) == [i \in 1..Len(d) |-> d[p[i]]]

\* _get_personal_data(record, "all") has returned a summary
SummaryReturned ==
    /\ unit.fn = "get_personal_data"
    /\ unit.pc = "returned"
    /\ unit.arg.t = "str"
    /\ lower(unit.arg.s) = s_all
    /\ ~unit.out.raised

\* C10: the summary's field lines come in the order name, email, role,
\* position, department, baseSalary, bonus, annualLeaveDays, sickLeaveDays,
\* one line for each of these fields the record holds and no other; then
\* the Documents Submitted line, then the Resubmission Required For line
\* (each when a document is flagged); and the record with its fields
\* inserted in any other order gives the same lines.
C10_SummaryLinesInFixedOrder ==
    SummaryReturned =>
        LET d     == unit.doc
            held  == FieldsHeld(d)
            lines == Tail(unit.out.args)
            up    == FlaggedIn(d, s_uploadedDocuments)
            re    == FlaggedIn(d, s_resubmissionRequested)
            nUp   == IF up = << >> THEN 0 ELSE 1
            nRe   == IF re = << >> THEN 0 ELSE 1
        IN  /\ Len(lines) = Len(held) + nUp + nRe
            /\ \A i \in 1..Len(held) :
                  /\ lines[i].v = Get(d, held[i], NoneVal)
                  /\ lines[i].label = IF held[i] = s_baseSalary THEN s_Salary
                                      ELSE title(held[i])
            /\ nUp = 1 => /\ lines[Len(held) + 1].label = s_Documents_Submitted
                          /\ lines[Len(held) + 1].v = Map(up)
            /\ nRe = 1 => /\ lines[Len(held) + nUp + 1].label = s_Resubmission_Required_For
                          /\ lines[Len(held) + nUp + 1].v = Map(re)
            /\ \A p \in Permutations(1..Len(d)) :
                  get_personal_data(Reordered(d, p), unit.arg) = unit.out

\* bonus inserted before email inserted before name: the lines come as
\* name, email, bonus
C10_Witness ==
    /\ SummaryReturned
    /\ Len(unit.doc) = 3
    /\ unit.doc[1].k = s_bonus
    /\ unit.doc[2].k = s_email
    /\ unit.doc[3].k = s_name
    /\ Len(unit.out.args) = 4
    /\ unit.out.args[2].v = Str(n_Salma)
    /\ unit.out.args[3].v = Str(e_salma)
    /\ unit.out.args[4].v = Num(2)

\* _get_personal_data has returned or raised for a non-empty field other
\* than "all"
FieldAsked ==
    /\ unit.fn = "get_personal_data"
    /\ unit.pc = "returned"
    /\ unit.arg.t = "str"
    /\ unit.arg.s # << >>
    /\ lower(unit.arg.s) # s_all

\* the record's keys that equal the field case-insensitively
KeyHits(d, field) == { i \in 1..Len(d) : lower(d[i].k) = lower(field) }

\* baseSalary + bonus is an amount: both are numbers (bonus 0 when absent)
AmountDefined(d) ==
    /\ Get(d, s_baseSalary, Num(0)).t = "num"
    /\ Get(d, s_bonus, Num(0)).t = "num"

\* C11: for a non-empty field other than "all", (1) if a record key equals
\* the field case-insensitively the result is that key's value, also when
\* the field is "salary"; (2) otherwise, if the field is "salary"
\* case-insensitively, the result is the total-compensation sentence with
\* amount baseSalary + bonus (bonus 0 when absent) when baseSalary exists
\* (both being numbers), and the salary-unavailable sentence when it does
\* not; (3) otherwise the result is the field-not-found sentence.
C11_FieldDecisionOrder ==
    FieldAsked =>
        LET d      == unit.doc
            name   == Get(d, s_name, Str(s_The_user))
            hits   == KeyHits(d, unit.arg.s)
            salary == lower(unit.arg.s) = s_salary
        IN  /\ hits # {} =>
                  \E i \in hits :
                      unit.out = Return(MsgFieldValue,
                                        << Arg(<< >>, "plain", Str(d[i].k)),
                                           Arg(<< >>, "plain", name),
                                           Arg(<< >>, "plain", d[i].v) >>)
            /\ (hits = {} /\ salary /\ HasKey(d, s_baseSalary) /\ AmountDefined(d)) =>
                  unit.out = Return(MsgTotalCompensation,
                                    << Arg(<< >>, "plain", Str(capitalize(name.s))),
                                       Arg(<< >>, "money",
                                           Num(Get(d, s_baseSalary, Num(0)).n
                                               + Get(d, s_bonus, Num(0)).n)) >>)
            /\ (hits = {} /\ salary /\ ~HasKey(d, s_baseSalary)) =>
                  unit.out = Return(MsgSalaryUnavailable,
                                    << Arg(<< >>, "plain", name) >>)
            /\ (hits = {} /\ ~salary) =>
                  unit.out = Return(MsgFieldNotFound,
                                    << Arg(<< >>, "plain", unit.arg),
                                       Arg(<< >>, "plain", name) >>)

\* a record holding both "Salary" and baseSalary, asked for "salary": the
\* stored "Salary" value is returned, not the total compensation
C11_Witness ==
    /\ FieldAsked
    /\ unit.arg = Str(s_salary)
    /\ HasKey(unit.doc, s_baseSalary)
    /\ Get(unit.doc, s_Salary, NoneVal) = Num(77)
    /\ unit.out.text = MsgFieldValue
    /\ unit.out.args[3].v = Num(77)

(***************************************************************************)
(* The store helpers                                                       *)
(***************************************************************************)
s_unknown == << "u","n","k","n","o","w","n" >>

MsgDatabaseNotAvailable ==
    "Database not available."

MsgNoApplicants ==
    "There are currently no new applicants."

MsgOneApplicant ==
    "There is currently {count} new applicant."

MsgManyApplicants ==
    "There are currently {count} new applicants."

\* _get_user_document when the read succeeds: the document's dict, or None
\* when no document has this id
StoreGet(st, id) ==
    IF \E i \in 1..Len(st) : st[i].id = id
    THEN Dict(st[CHOOSE i \in 1..Len(st) : st[i].id = id].doc)
    ELSE NoneVal

\* the documents that where(fieldName, "==", value) selects
Where(st, fieldName, value) ==
    { i \in 1..Len(st) : /\ HasKey(st[i].doc, fieldName)
                         /\ Get(st[i].doc, fieldName, NoneVal) = value }

\* _get_new_applicant_count with one wording for every count above 0
get_new_applicant_count_no_singular(db, st) ==
    IF ~db
    THEN Return(MsgDatabaseNotAvailable, << >>)
    ELSE LET count == Cardinality(Where(st, s_role, Str(s_new)))
         IN  IF count = 0 THEN Return(MsgNoApplicants, << >>)
             ELSE Return(MsgManyApplicants, << Arg(<< >>, "plain", Num(count)) >>)

\* _get_new_applicant_count when the stream succeeds
get_new_applicant_count(db, st) ==
    IF ~db
    THEN Return(MsgDatabaseNotAvailable, << >>)
    ELSE LET count == Cardinality(Where(st, s_role, Str(s_new)))
         IN  IF count = 0 THEN Return(MsgNoApplicants, << >>)
             ELSE IF count = 1
             THEN Return(MsgOneApplicant, << Arg(<< >>, "plain", Num(count)) >>)
             ELSE Return(MsgManyApplicants, << Arg(<< >>, "plain", Num(count)) >>)

\* what _get_user_by_identifier produces: a document, None, or an exception
Found(v) == [raised |-> FALSE, doc |-> v]

LookupRaises == [raised |-> TRUE, doc |-> NoneVal]

\* _get_user_by_identifier with the query by name made first
get_user_by_identifier_name_first(db, st, identifier) ==
    IF ~Truthy(identifier)
    THEN { Found(NoneVal) }
    ELSE IF ~db \/ identifier.t # "str"
    THEN { LookupRaises }
    ELSE LET by_email == Where(st, s_email, identifier)
             by_name  == Where(st, s_name, Str(title(identifier.s)))
         IN  IF by_name # {}
             THEN { Found(Dict(st[i].doc)) : i \in by_name }
             ELSE IF by_email # {}
             THEN { Found(Dict(st[i].doc)) : i \in by_email }
             ELSE { Found(NoneVal) }

\* _get_user_by_identifier when the streams succeed: everything it can
\* produce (limit(1) yields one of the documents the query selects)
get_user_by_identifier(db, st, identifier) ==
    IF ~Truthy(identifier)
    THEN { Found(NoneVal) }
    ELSE IF ~db
    THEN { LookupRaises }
    ELSE LET by_email == Where(st, s_email, identifier)
         IN  IF by_email # {}
             THEN { Found(Dict(st[i].doc)) : i \in by_email }
             ELSE IF identifier.t # "str"
             THEN { LookupRaises }
             ELSE LET by_name == Where(st, s_name, Str(title(identifier.s)))
                  IN  IF by_name # {}
                      THEN { Found(Dict(st[i].doc)) : i \in by_name }
                      ELSE { Found(NoneVal) }

(***************************************************************************)
(* Direct calls of the store helpers                                       *)
(***************************************************************************)
MaxUsers == 3

n_Ann == << "A","n","n" >>
n_Zed == << "Z","e","d" >>
n_Kim == << "K","i","m" >>
e_ann == << "a","@","x" >>
e_kim == << "k","@","x" >>
v_ann == << "a","n","n" >>
v_ANN == << "A","N","N" >>
v_zoe == << "z","o","e" >>
v_New == << "N","e","w" >>

UserIds == << "u1", "u2", "u3", "u4", "u5" >>

\* the documents the users collection can hold: Zed's email is the
\* lower-cased name of Ann
UserPool ==
    { << [k |-> s_name, v |-> Str(n_Ann)], [k |-> s_email, v |-> Str(e_ann)],
         [k |-> s_role, v |-> Str(s_new)] >>,
      << [k |-> s_name, v |-> Str(n_Zed)], [k |-> s_email, v |-> Str(v_ann)],
         [k |-> s_role, v |-> Str(s_new)] >>,
      << [k |-> s_name, v |-> Str(n_Kim)], [k |-> s_role, v |-> Str(s_hr)] >>,
      << [k |-> s_email, v |-> Str(e_kim)], [k |-> s_role, v |-> Str(v_New)] >> }

\* the collections of at most MaxUsers documents
UserStores ==
    UNION { { [i \in 1..n |-> [id |-> UserIds[i], doc |-> f[i]]] :
                f \in [1..n -> UserPool] } : n \in 0..MaxUsers }

Identifiers ==
    { NoneVal, Str(<< >>), Str(v_ann), Str(v_ANN), Str(e_ann), Str(v_zoe), Num(5) }

InitStore ==
    /\ dbClient \in BOOLEAN
    /\ store \in UserStores
    /\ callerId = ""
    /\ pc = "idle"
    /\ user_doc = NoneVal
    /\ user_role = NoneVal
    /\ available_actions = << >>
    /\ routerOut = NoRouterOut
    /\ target_id = NoneVal
    /\ target_doc = NoneVal
    /\ result = NoResult
    /\ calls = NoCalls
    /\ readOf = "none"
    /\ peer = NoPeer
    /\ unit \in { UnitCall("get_new_applicant_count", << >>, NoneVal) }
                 \cup { UnitCall("get_user_by_identifier", << >>, a) :
                           a \in Identifiers }

\* lines 119-123: the stream succeeds
CallGetNewApplicantCount ==
    /\ unit.pc = "call"
    /\ unit.fn = "get_new_applicant_count"
    /\ unit' = [unit EXCEPT !.out = get_new_applicant_count(dbClient, store),
                            !.pc = "returned"]
    /\ UNCHANGED requestVars

\* lines 128-135: the streams succeed
CallGetUserByIdentifier ==
    /\ unit.pc = "call"
    /\ unit.fn = "get_user_by_identifier"
    /\ \E r \in get_user_by_identifier(dbClient, store, unit.arg) :
          unit' = [unit EXCEPT !.out = r, !.pc = "returned"]
    /\ UNCHANGED requestVars

\* lines 121, 131, 134: a stream raises and the helper lets it through
CallStoreHelperFails ==
    /\ unit.pc = "call"
    /\ dbClient
    /\ \/ /\ unit.fn = "get_new_applicant_count"
          /\ unit' = [unit EXCEPT !.out = Raise, !.pc = "failed"]
       \/ /\ unit.fn = "get_user_by_identifier"
          /\ Truthy(unit.arg)
          /\ unit' = [unit EXCEPT !.out = LookupRaises, !.pc = "failed"]
    /\ UNCHANGED requestVars

NextStore ==
    \/ CallGetNewApplicantCount
    \/ CallGetUserByIdentifier
    \/ CallStoreHelperFails

SpecStore == InitStore /\ [][NextStore]_vars

(***************************************************************************)
(* Properties of the store helpers                                         *)
(***************************************************************************)
\* the documents of the collection whose role is "new"
NewApplicants ==
    { i \in 1..Len(store) : Get(store[i].doc, s_role, NoneVal) = Str(s_new) }

\* _get_new_applicant_count has returned, the client being there
CountReturned ==
    /\ unit.fn = "get_new_applicant_count"
    /\ unit.pc = "returned"
    /\ dbClient

\* C12: the count is the number of documents whose role is exactly "new";
\* 0 gives the "no new applicants" sentence, 1 the singular sentence with
\* the count 1, every n >= 2 the plural sentence with the count n.
C12_CountWording ==
    CountReturned =>
        LET n == Cardinality(NewApplicants)
        IN  /\ n = 0 => unit.out = Return(MsgNoApplicants, << >>)
            /\ n = 1 => unit.out = Return(MsgOneApplicant,
                                          << Arg(<< >>, "plain", Num(1)) >>)
            /\ n >= 2 => unit.out = Return(MsgManyApplicants,
                                           << Arg(<< >>, "plain", Num(n)) >>)

\* two documents with role "new" and one with role "New": the plural
\* sentence with the count 2
C12_Witness ==
    /\ CountReturned
    /\ Cardinality(NewApplicants) = 2
    /\ \E i \in 1..Len(store) : Get(store[i].doc, s_role, NoneVal) = Str(v_New)
    /\ unit.out = Return(MsgManyApplicants, << Arg(<< >>, "plain", Num(2)) >>)

\* _get_user_by_identifier has returned for None or a string, the client
\* being there
LookupReturned ==
    /\ unit.fn = "get_user_by_identifier"
    /\ unit.pc = "returned"
    /\ dbClient
    /\ unit.arg.t \in { "none", "str" }

\* the documents whose email is the identifier
EmailMatches ==
    { i \in 1..Len(store) : /\ HasKey(store[i].doc, s_email)
                            /\ Get(store[i].doc, s_email, NoneVal) = unit.arg }

\* the documents whose name is the title-cased identifier
NameMatches ==
    { i \in 1..Len(store) : /\ HasKey(store[i].doc, s_name)
                            /\ Get(store[i].doc, s_name, NoneVal)
                                  = Str(title(unit.arg.s)) }

\* C13: for an empty identifier the result is absent; otherwise, when some
\* document's email is the identifier the result is such a document, also
\* when another document's name is the title-cased identifier; when none is
\* and some document's name is the title-cased identifier the result is
\* such a document; when neither matches the result is absent.
C13_EmailBeforeName ==
    LookupReturned =>
        IF unit.arg.t = "none" \/ unit.arg.s = << >>
        THEN unit.out = Found(NoneVal)
        ELSE /\ EmailMatches # {} =>
                   \E i \in EmailMatches : unit.out = Found(Dict(store[i].doc))
             /\ (EmailMatches = {} /\ NameMatches # {}) =>
                   \E i \in NameMatches : unit.out = Found(Dict(store[i].doc))
             /\ (EmailMatches = {} /\ NameMatches = {}) =>
                   unit.out = Found(NoneVal)

\* "ann" is Zed's email and, title-cased, Ann's name: Zed's document is
\* returned
C13_Witness ==
    /\ LookupReturned
    /\ unit.arg = Str(v_ann)
    /\ EmailMatches # {}
    /\ NameMatches # {}
    /\ unit.out.doc.t = "dict"
    /\ Get(unit.out.doc.m, s_name, NoneVal) = Str(n_Zed)

(***************************************************************************)
(* get_user_specific_data_tool                                             *)
(***************************************************************************)
MsgNoDatabase ==
    "I am sorry, but I cannot connect to our database at the moment."

MsgNoProfile ==
    "I'm sorry, I couldn't find your user profile."

MsgRoleNotConfigured ==
    "I'm sorry, your user role ('{user_role}') is not configured for any actions."

MsgSpecifyPerson ==
    "Please specify the person you are asking about."

MsgNoSuchUser ==
    "I could not find a user matching '{target_id}'."

MsgDenied ==
    "I'm sorry, I cannot perform that action due to your permissions or an unrecognized request."

MsgRephrase ==
    "I had trouble processing your request. Please try rephrasing."

a_get_my_personal_info == "get_my_personal_info"

a_check_my_document_status == "check_my_document_status"

a_get_information_about_anyone == "get_information_about_anyone"

a_get_applicant_count == "get_applicant_count"

p_field == << "f","i","e","l","d" >>

p_document_name == << "d","o","c","u","m","e","n","t","_","n","a","m","e" >>

p_target_identifier == << "t","a","r","g","e","t","_","i","d","e","n","t","i","f","i","e","r" >>

p_request_details == << "r","e","q","u","e","s","t","_","d","e","t","a","i","l","s" >>

doc_keywords ==
    << << "d","o","c","u","m","e","n","t" >>,
       << "c","e","r","t","i","f","i","c","a","t","e" >>,
       << "i","d" >>,
       << "b","a","n","k" >>,
       << "s","u","b","m","i","s","s","i","o","n" >>,
       << "s","t","a","t","u","s" >>,
       << "u","p","l","o","a","d" >> >>

\* available_actions with the role compared case-insensitively
MenuFor_case_insensitive(role) ==
    IF role.t = "str" /\ lower(role.s) \in { s_employee, s_new }
    THEN << a_get_my_personal_info, a_check_my_document_status >>
    ELSE IF role.t = "str" /\ lower(role.s) = s_hr
    THEN << a_get_my_personal_info, a_check_my_document_status,
            a_get_information_about_anyone, a_get_applicant_count >>
    ELSE << >>

\* available_actions for a role: the keys of the dict, in its order (the
\* values are descriptions for the prompt)
MenuFor(role) ==
    IF role = Str(s_employee) \/ role = Str(s_new)
    THEN << a_get_my_personal_info, a_check_my_document_status >>
    ELSE IF role = Str(s_hr)
    THEN << a_get_my_personal_info, a_check_my_document_status,
            a_get_information_about_anyone, a_get_applicant_count >>
    ELSE << >>

\* the two elif branches without their role gate
IsHr_ungated(role) == TRUE

\* the gate reading the caller's role from the store again instead of
\* using the local user_role
IsHr_rereads_store(role) ==
    LET doc == StoreGet(store, callerId)
    IN  doc.t = "dict" /\ Get(doc.m, s_role, Str(s_unknown)) = Str(s_hr)

\* the gate "and user_role == "hr"" of the two elif branches
IsHr(role) == role = Str(s_hr)

\* the except clause answering with the text of the final else branch
Caught_as_denied(r) == IF r.raised THEN Return(MsgDenied, << >>) ELSE r

\* no except clause: the exception leaves the coroutine
Caught_propagates(r) == r

\* the except clause of the dispatcher's try block
Caught(r) == IF r.raised THEN Return(MsgRephrase, << >>) ELSE r

\* response.get("action_name", "get_my_personal_info"): a default action
ActionName_defaulted(out) ==
    IF out.hasAction THEN out.action ELSE a_get_my_personal_info

\* response.get("action_name"): "" stands for None
ActionName(out) == IF out.hasAction THEN out.action ELSE ""

\* response["parameters"] without a default: None stands for the KeyError
Parameters_undefaulted(out) == IF out.hasParams THEN out.params ELSE NoneVal

\* response.get("parameters", {})
Parameters(out) == IF out.hasParams THEN out.params ELSE Dict(<< >>)

\* the keyword scan without .lower()
IsDocumentRequest_case_sensitive(req_details) ==
    \E i \in 1..Len(doc_keywords) : Contains(req_details.s, doc_keywords[i])

\* any(keyword in req_details.lower() for keyword in doc_keywords)
IsDocumentRequest(req_details) ==
    \E i \in 1..Len(doc_keywords) : Contains(lower(req_details.s), doc_keywords[i])

\* lines 216-223, once _get_user_by_identifier has returned target_doc:
\* [result, readOf]
ExecuteOnTarget(tdoc, tid, parameters) ==
    LET req_details == Get(parameters.m, p_request_details, Str(s_all))
    IN  IF ~Truthy(tdoc)
        THEN [result |-> Return(MsgNoSuchUser, << Arg(<< >>, "plain", tid) >>),
              readOf |-> "none"]
        ELSE IF req_details.t # "str"
        THEN [result |-> Raise, readOf |-> "none"]
        ELSE IF IsDocumentRequest(req_details)
        THEN [result |-> check_document_status(tdoc.m, req_details),
              readOf |-> "target"]
        ELSE [result |-> get_personal_data(tdoc.m, req_details),
              readOf |-> "target"]

\* what the dispatch does up to its next suspension point or its return
Step(next, res, rd, tid) == [next |-> next, result |-> res, readOf |-> rd, target_id |-> tid]

\* lines 194-226 for a value the chain returned:
\* next is "done" (result is returned, or raised inside the try block),
\* "count" (_get_new_applicant_count is called) or "resolve_email"
\* (_get_user_by_identifier is called)
Dispatch(doc, role, out) ==
    LET action_name == ActionName(out)
        parameters  == Parameters(out)
    IN  IF out.kind # "object"
        THEN Step("done", Raise, "none", NoneVal)
        ELSE IF action_name = a_get_my_personal_info
        THEN IF parameters.t # "dict"
             THEN Step("done", Raise, "none", NoneVal)
             ELSE Step("done",
                       get_personal_data(doc.m, Get(parameters.m, p_field, NoneVal)),
                       "caller", NoneVal)
        ELSE IF action_name = a_check_my_document_status
        THEN IF parameters.t # "dict"
             THEN Step("done", Raise, "none", NoneVal)
             ELSE Step("done",
                       check_document_status(doc.m,
                            Get(parameters.m, p_document_name, NoneVal)),
                       "caller", NoneVal)
        ELSE IF action_name = a_get_applicant_count /\ IsHr(role)
        THEN Step("count", NoResult, "none", NoneVal)
        ELSE IF action_name = a_get_information_about_anyone /\ IsHr(role)
        THEN IF parameters.t # "dict"
             THEN Step("done", Raise, "none", NoneVal)
             ELSE LET tid == Get(parameters.m, p_target_identifier, NoneVal)
                  IN  IF ~Truthy(tid)
                      THEN Step("done", Return(MsgSpecifyPerson, << >>), "none", tid)
                      ELSE Step("resolve_email", NoResult, "none", tid)
        ELSE Step("done", Return(MsgDenied, << >>), "none", NoneVal)

(***************************************************************************)
(* The inputs of a request: the store, the caller, what the router returns *)
(***************************************************************************)
MaxParams == 2

n_Amal == << "A","m","a","l" >>
n_Bob == << "B","o","b" >>
e_bob == << "b","@","x",".","c","o" >>
v_HR == << "H","R" >>
v_intern == << "i","n","t","e","r","n" >>
v_nobody == << "n","o","b","o","d","y" >>
v_salma == << "s","a","l","m","a" >>
v_id_card == << "i","d"," ","c","a","r","d" >>
v_PaID == << "P","a","I","D" >>

\* the caller's document: any role, a salary that may not be a number, an
\* optional flag dict; or a document without fields
CallerDocs ==
    { << >> } \cup
    { << [k |-> s_name, v |-> Str(n_Amal)] >> \o r \o b \o d :
        r \in OptField(s_role, { Str(s_employee), Str(s_new), Str(s_hr),
                                 Str(v_HR), Str(v_intern) }),
        b \in OptField(s_baseSalary, { Num(10), Str(v_na) }),
        d \in OptField(s_resubmissionRequested,
                       { Map(<< [k |-> k_ID_Card, f |-> TRUE] >>) }) }

SalmaDoc ==
    << [k |-> s_name, v |-> Str(n_Salma)],
       [k |-> s_email, v |-> Str(e_salma)],
       [k |-> s_role, v |-> Str(s_employee)],
       [k |-> s_baseSalary, v |-> Num(10)],
       [k |-> s_bonus, v |-> Num(2)],
       [k |-> s_uploadedDocuments, v |-> Map(<< [k |-> k_Bank, f |-> TRUE] >>)] >>

BobDoc ==
    << [k |-> s_name, v |-> Str(n_Bob)],
       [k |-> s_email, v |-> Str(e_bob)],
       [k |-> s_role, v |-> Str(s_new)],
       [k |-> s_baseSalary, v |-> Str(v_na)] >>

\* the users collection: the caller "u1", Salma, and Bob or not
Stores ==
    { << [id |-> "u1", doc |-> c], [id |-> "u2", doc |-> SalmaDoc] >> \o b :
        c \in CallerDocs,
        b \in { << >>, << [id |-> "u3", doc |-> BobDoc] >> } }

CallerIds == { "u1", "u9" }

FieldVals == { NoneVal, Str(<< >>), Str(s_all), Str(s_salary), Num(5) }

DocumentNameVals == { NoneVal, Str(<< "i","d" >>), Num(5) }

TargetVals == { NoneVal, Str(v_salma), Str(e_bob), Str(v_nobody), Num(5) }

DetailVals ==
    { NoneVal, Str(s_all), Str(s_salary), Str(v_id_card), Str(v_PaID), Num(5) }

\* the dicts "parameters" can be: at most MaxParams of the four keys
ParamDicts ==
    { d \in { f \o n \o i \o r :
                f \in OptField(p_field, FieldVals),
                n \in OptField(p_document_name, DocumentNameVals),
                i \in OptField(p_target_identifier, TargetVals),
                r \in OptField(p_request_details, DetailVals) } :
        Len(d) <= MaxParams }

\* the values "parameters" can have when the key is there: null, a string,
\* or a dict
ParamVals == { NoneVal, Str(v_na) } \cup { Dict(d) : d \in ParamDicts }

ActionVals ==
    { a_get_my_personal_info, a_check_my_document_status,
      a_get_information_about_anyone, a_get_applicant_count, "delete_user" }

RouterOut(kind, hasAction, action, hasParams, params) ==
    [kind |-> kind, hasAction |-> hasAction, action |-> action,
     hasParams |-> hasParams, params |-> params]

\* what chain.ainvoke can return: a JSON value that is no object, or an
\* object with or without each of its two keys
RouterOutputs ==
    { RouterOut("nonobject", FALSE, "", FALSE, NoneVal) }
    \cup { RouterOut("object", TRUE, a, TRUE, v) : a \in ActionVals, v \in ParamVals }
    \cup { RouterOut("object", TRUE, a, FALSE, NoneVal) : a \in ActionVals }
    \cup { RouterOut("object", FALSE, "", TRUE, v) : v \in ParamVals }
    \cup { RouterOut("object", FALSE, "", FALSE, NoneVal) }

\* what chain.ainvoke returns while two requests are served: one result
\* for each action and a value that is no object
PairRouterOutputs ==
    { RouterOut("nonobject", FALSE, "", FALSE, NoneVal),
      RouterOut("object", TRUE, a_get_my_personal_info, TRUE,
                Dict(<< [k |-> p_field, v |-> Str(s_all)] >>)),
      RouterOut("object", TRUE, a_check_my_document_status, TRUE,
                Dict(<< [k |-> p_document_name, v |-> Str(<< "i","d" >>)] >>)),
      RouterOut("object", TRUE, a_get_applicant_count, FALSE, NoneVal),
      RouterOut("object", TRUE, a_get_information_about_anyone, TRUE,
                Dict(<< [k |-> p_target_identifier, v |-> Str(v_salma)],
                        [k |-> p_request_details, v |-> Str(s_salary)] >>)),
      RouterOut("object", TRUE, a_get_information_about_anyone, TRUE,
                Dict(<< [k |-> p_target_identifier, v |-> Str(e_bob)] >>)) }

\* the values chain.ainvoke is given to return
RouterPool == IF peer = NoPeer THEN RouterOutputs ELSE PairRouterOutputs

(***************************************************************************)
(* One request, step by step                                               *)
(***************************************************************************)
Init ==
    /\ dbClient \in BOOLEAN
    /\ store \in Stores
    /\ callerId \in CallerIds
    /\ pc = "start"
    /\ user_doc = NoneVal
    /\ user_role = NoneVal
    /\ available_actions = << >>
    /\ routerOut = NoRouterOut
    /\ target_id = NoneVal
    /\ target_doc = NoneVal
    /\ result = NoResult
    /\ calls = NoCalls
    /\ readOf = "none"
    /\ unit = UnitIdle
    /\ peer = NoPeer

\* the coroutine ends: it returns r, or r is the exception it raises
Ends(r) ==
    /\ result' = r
    /\ pc' = "done"

\* the coroutine ends inside the try block of lines 190-230
Finish(r) == Ends(Caught(r))

\* lines 156-164: no client ends the request; otherwise _get_user_document
\* is called
Start ==
    /\ pc = "start"
    /\ IF ~dbClient
       THEN /\ Ends(Return(MsgNoDatabase, << >>))
            /\ UNCHANGED calls
       ELSE /\ pc' = "load"
            /\ calls' = [calls EXCEPT !.fetch = @ + 1]
            /\ UNCHANGED result
    /\ UNCHANGED << dbClient, store, callerId, user_doc, user_role,
                    available_actions, routerOut, target_id, target_doc,
                    readOf, unit, peer >>

\* lines 164-166 without the "if not user_doc" check
Loaded_unchecked(doc) ==
    /\ user_doc' = doc
    /\ pc' = "menu"
    /\ UNCHANGED << result, dbClient, store, callerId, user_role,
                    available_actions, routerOut, target_id, target_doc,
                    readOf, unit, peer >>

\* lines 164-166 with what _get_user_document returned
Loaded(doc) ==
    /\ user_doc' = doc
    /\ IF ~Truthy(doc)
       THEN Ends(Return(MsgNoProfile, << >>))
       ELSE pc' = "menu" /\ UNCHANGED result
    /\ UNCHANGED << dbClient, store, callerId, user_role, available_actions,
                    routerOut, target_id, target_doc, readOf, unit, peer >>

\* lines 25-27: the read succeeds
LoadCaller ==
    /\ pc = "load"
    /\ Loaded(StoreGet(store, callerId))
    /\ UNCHANGED calls

\* lines 28-30: the read raises, _get_user_document logs it and returns None
LoadCallerFails ==
    /\ pc = "load"
    /\ Loaded(NoneVal)
    /\ calls' = [calls EXCEPT !.failed = "load"]

\* lines 168-184
BuildMenu ==
    /\ pc = "menu"
    /\ user_role' = Get(user_doc.m, s_role, Str(s_unknown))
    /\ available_actions' = MenuFor(user_role')
    /\ IF available_actions' = << >>
       THEN Ends(Return(MsgRoleNotConfigured,
                        << Arg(<< >>, "plain", user_role') >>))
       ELSE pc' = "route" /\ UNCHANGED result
    /\ UNCHANGED << dbClient, store, callerId, user_doc, routerOut, target_id,
                    target_doc, calls, readOf, unit, peer >>

\* lines 187-193: chain.ainvoke is called
InvokeRouter ==
    /\ pc = "route"
    /\ pc' = "routing"
    /\ calls' = [calls EXCEPT !.router = @ + 1]
    /\ UNCHANGED << dbClient, store, callerId, user_doc, user_role,
                    available_actions, routerOut, target_id, target_doc,
                    result, readOf, unit, peer >>

\* lines 191, 228-230: the call raises (the model fails, or its text is no JSON)
RouterRaises ==
    /\ pc = "routing"
    /\ routerOut' = RouterOut("raise", FALSE, "", FALSE, NoneVal)
    /\ Finish(Raise)
    /\ UNCHANGED << dbClient, store, callerId, user_doc, user_role,
                    available_actions, target_id, target_doc, calls, readOf,
                    unit, peer >>

\* lines 191-226: the call returns a value and the dispatch runs to its
\* return or to its next store call
RouterReturns ==
    /\ pc = "routing"
    /\ \E out \in RouterPool :
          LET step == Dispatch(user_doc, user_role, out)
          IN  /\ routerOut' = out
              /\ target_id' = step.target_id
              /\ readOf' = step.readOf
              /\ IF step.next = "done"
                 THEN Finish(step.result) /\ UNCHANGED calls
                 ELSE /\ pc' = step.next
                      /\ UNCHANGED result
                      /\ calls' = IF step.next = "count"
                                  THEN [calls EXCEPT !.count = @ + 1]
                                  ELSE [calls EXCEPT !.lookup = @ + 1,
                                                     !.query = @ + 1]
    /\ UNCHANGED << dbClient, store, callerId, user_doc, user_role,
                    available_actions, target_doc, unit, peer >>

\* lines 120-123, 206: the stream succeeds
CountReturns ==
    /\ pc = "count"
    /\ Finish(get_new_applicant_count(dbClient, store))
    /\ readOf' = "count"
    /\ UNCHANGED << dbClient, store, callerId, user_doc, user_role,
                    available_actions, routerOut, target_id, target_doc,
                    calls, unit, peer >>

\* lines 216-223 with the document a query found
Resolved(tdoc) ==
    LET ex == ExecuteOnTarget(tdoc, target_id, Parameters(routerOut))
    IN  /\ target_doc' = tdoc
        /\ readOf' = ex.readOf
        /\ Finish(ex.result)
        /\ UNCHANGED calls

\* lines 130-133: the query by email succeeds; without a match the query by
\* name follows, unless identifier.title() raises
EmailQueryReturns ==
    /\ pc = "resolve_email"
    /\ LET hits == Where(store, s_email, target_id)
       IN  IF hits # {}
           THEN \E i \in hits : Resolved(Dict(store[i].doc))
           ELSE IF target_id.t # "str"
           THEN Finish(Raise) /\ UNCHANGED << target_doc, readOf, calls >>
           ELSE /\ pc' = "resolve_name"
                /\ calls' = [calls EXCEPT !.query = @ + 1]
                /\ UNCHANGED << target_doc, readOf, result >>
    /\ UNCHANGED << dbClient, store, callerId, user_doc, user_role,
                    available_actions, routerOut, target_id, unit, peer >>

\* lines 133-135: the query by name succeeds
NameQueryReturns ==
    /\ pc = "resolve_name"
    /\ LET hits == Where(store, s_name, Str(title(target_id.s)))
       IN  IF hits # {}
           THEN \E i \in hits : Resolved(Dict(store[i].doc))
           ELSE Resolved(NoneVal)
    /\ UNCHANGED << dbClient, store, callerId, user_doc, user_role,
                    available_actions, routerOut, target_id, unit, peer >>

\* a stream raises and the call is made once more
StoreQueryFails_retries ==
    /\ pc \in { "count", "resolve_email", "resolve_name" }
    /\ calls.failed = ""
    /\ calls' = [calls EXCEPT !.failed = pc,
                              !.count = IF pc = "count" THEN @ + 1 ELSE @,
                              !.query = IF pc = "count" THEN @ ELSE @ + 1]
    /\ UNCHANGED << dbClient, store, callerId, pc, user_doc, user_role,
                    available_actions, routerOut, target_id, target_doc,
                    result, readOf, unit, peer >>

\* lines 121, 131, 134: a stream raises; the exception reaches the except
\* clause of the dispatcher
StoreQueryFails ==
    /\ pc \in { "count", "resolve_email", "resolve_name" }
    /\ Finish(Raise)
    /\ calls' = [calls EXCEPT !.failed = pc]
    /\ UNCHANGED << dbClient, store, callerId, user_doc, user_role,
                    available_actions, routerOut, target_id, target_doc,
                    readOf, unit, peer >>

Next ==
    \/ Start
    \/ LoadCaller
    \/ LoadCallerFails
    \/ BuildMenu
    \/ InvokeRouter
    \/ RouterRaises
    \/ RouterReturns
    \/ CountReturns
    \/ EmailQueryReturns
    \/ NameQueryReturns
    \/ StoreQueryFails

Spec == Init /\ [][Next]_vars

(***************************************************************************)
(* Two requests on one event loop.  The variables of a request hold the    *)
(* locals of the coroutine that runs; peer holds those of the other, which *)
(* rests at an await (or has not started, or is over).  The client and the *)
(* collection are the same for both.                                       *)
(***************************************************************************)
\* the locals of the running coroutine
Frame ==
    [callerId |-> callerId, pc |-> pc, user_doc |-> user_doc,
     user_role |-> user_role, available_actions |-> available_actions,
     routerOut |-> routerOut, target_id |-> target_id,
     target_doc |-> target_doc, result |-> result, calls |-> calls,
     readOf |-> readOf]

\* a coroutine that has not started
FreshFrame(id) == [NoPeer EXCEPT !.callerId = id, !.pc = "start"]

\* the positions at which a coroutine rests: before its first step, at the
\* awaits of lines 164, 191, 206 and 215 (131, 134), and after its return
SuspensionPoints ==
    { "start", "load", "routing", "count", "resolve_email", "resolve_name",
      "done" }

\* the switch with user_doc being one variable of the module instead of a
\* local of each coroutine
Switch_shared_user_doc ==
    /\ peer # NoPeer
    /\ pc \in SuspensionPoints
    /\ peer.pc # "done"
    /\ peer' = Frame
    /\ callerId' = peer.callerId
    /\ pc' = peer.pc
    /\ user_role' = peer.user_role
    /\ available_actions' = peer.available_actions
    /\ routerOut' = peer.routerOut
    /\ target_id' = peer.target_id
    /\ target_doc' = peer.target_doc
    /\ result' = peer.result
    /\ calls' = peer.calls
    /\ readOf' = peer.readOf
    /\ UNCHANGED << dbClient, store, unit, user_doc >>

\* the event loop resumes the other coroutine while this one rests
Switch ==
    /\ peer # NoPeer
    /\ pc \in SuspensionPoints
    /\ peer.pc # "done"
    /\ peer' = Frame
    /\ callerId' = peer.callerId
    /\ pc' = peer.pc
    /\ user_doc' = peer.user_doc
    /\ user_role' = peer.user_role
    /\ available_actions' = peer.available_actions
    /\ routerOut' = peer.routerOut
    /\ target_id' = peer.target_id
    /\ target_doc' = peer.target_doc
    /\ result' = peer.result
    /\ calls' = peer.calls
    /\ readOf' = peer.readOf
    /\ UNCHANGED << dbClient, store, unit >>

\* the callers of the two requests: an hr caller or not, with Bob among the
\* users or not
PairStores ==
    { << [id |-> "u1", doc |-> << [k |-> s_name, v |-> Str(n_Amal)] >> \o r],
         [id |-> "u2", doc |-> SalmaDoc] >> \o b :
        r \in OptField(s_role, { Str(s_hr), Str(s_new) }),
        b \in { << >>, << [id |-> "u3", doc |-> BobDoc] >> } }

PairCallerIds == { "u1", "u2", "u9" }

InitPair ==
    /\ dbClient \in BOOLEAN
    /\ store \in PairStores
    /\ callerId \in PairCallerIds
    /\ pc = "start"
    /\ user_doc = NoneVal
    /\ user_role = NoneVal
    /\ available_actions = << >>
    /\ routerOut = NoRouterOut
    /\ target_id = NoneVal
    /\ target_doc = NoneVal
    /\ result = NoResult
    /\ calls = NoCalls
    /\ readOf = "none"
    /\ unit = UnitIdle
    /\ peer \in { FreshFrame(id) : id \in PairCallerIds }

NextPair ==
    \/ Start
    \/ LoadCaller
    \/ LoadCallerFails
    \/ BuildMenu
    \/ InvokeRouter
    \/ RouterRaises
    \/ RouterReturns
    \/ CountReturns
    \/ EmailQueryReturns
    \/ NameQueryReturns
    \/ StoreQueryFails
    \/ Switch

SpecPair == InitPair /\ [][NextPair]_vars

(***************************************************************************)
(* One request while the external system that owns the store changes the   *)
(* caller's role                                                           *)
(***************************************************************************)
\* the collection with the role of user id set to r
SetRole(st, id, r) ==
    [i \in 1..Len(st) |->
        IF st[i].id = id
        THEN [id  |-> id,
              doc |-> [j \in 1..Len(st[i].doc) |->
                          IF st[i].doc[j].k = s_role
                          THEN [k |-> s_role, v |-> r]
                          ELSE st[i].doc[j]]]
        ELSE st[i]]

\* while the request rests at an await after the caller's record was
\* loaded, the external system makes the caller hr or employee
ExternalRoleChange ==
    /\ pc \in { "routing", "count", "resolve_email", "resolve_name" }
    /\ \E r \in { Str(s_hr), Str(s_employee) } :
          /\ StoreGet(store, callerId).t = "dict"
          /\ HasKey(StoreGet(store, callerId).m, s_role)
          /\ Get(StoreGet(store, callerId).m, s_role, NoneVal) # r
          /\ store' = SetRole(store, callerId, r)
    /\ UNCHANGED << dbClient, callerId, pc, user_doc, user_role,
                    available_actions, routerOut, target_id, target_doc,
                    result, calls, readOf, unit, peer >>

NextChange ==
    \/ Start
    \/ LoadCaller
    \/ LoadCallerFails
    \/ BuildMenu
    \/ InvokeRouter
    \/ RouterRaises
    \/ RouterReturns
    \/ CountReturns
    \/ EmailQueryReturns
    \/ NameQueryReturns
    \/ StoreQueryFails
    \/ ExternalRoleChange

SpecChange == Init /\ [][NextChange]_vars

(***************************************************************************)
(* Properties of get_user_specific_data_tool                               *)
(***************************************************************************)
\* a text without values
Response(text) == Return(text, << >>)

\* the caller's document in the store (None when there is none)
CallerRecord == StoreGet(store, callerId)

\* the role that document holds
CallerRecordRole ==
    IF CallerRecord.t = "dict"
    THEN Get(CallerRecord.m, s_role, Str(s_unknown))
    ELSE NoneVal

ServedRoles == { Str(s_employee), Str(s_new), Str(s_hr) }

NonHrRoles == { Str(s_employee), Str(s_new) }

HrOnlyActions == { a_get_information_about_anyone, a_get_applicant_count }

ActionEnumeration ==
    { a_get_my_personal_info, a_check_my_document_status,
      a_get_information_about_anyone, a_get_applicant_count }

\* the router returned an object
RouterGaveObject == routerOut.kind = "object"

\* every response that is made of the caller's own document and of what
\* the router returned, or is a fixed text
OwnResponses ==
    { Response(MsgNoDatabase), Response(MsgNoProfile), Response(MsgDenied),
      Response(MsgRephrase) }
    \cup { Caught(get_personal_data(CallerRecord.m, f)) : f \in FieldVals }
    \cup { Caught(check_document_status(CallerRecord.m, n)) : n \in DocumentNameVals }

\* C1: for a caller whose record has role employee or new, whatever the
\* router returns, no lookup of another user and no applicant count is ever
\* performed, the response is made of the caller's own record only, and a
\* router result naming get_information_about_anyone or get_applicant_count
\* ends in the permission-denied response.
C1_NonHrCallerReachesNoOtherRecord ==
    CallerRecordRole \in NonHrRoles =>
        /\ calls.lookup = 0
        /\ calls.query = 0
        /\ calls.count = 0
        /\ pc \notin { "count", "resolve_email", "resolve_name" }
        /\ target_doc = NoneVal
        /\ readOf \in { "none", "caller" }
        /\ pc = "done" => result \in OwnResponses
        /\ (pc = "done" /\ RouterGaveObject /\ ActionName(routerOut) \in HrOnlyActions)
              => result = Response(MsgDenied)

\* an employee whose router result asks for Salma's data is denied
C1_Witness ==
    /\ pc = "done"
    /\ user_role = Str(s_employee)
    /\ RouterGaveObject
    /\ ActionName(routerOut) = a_get_information_about_anyone
    /\ Parameters(routerOut).t = "dict"
    /\ Get(Parameters(routerOut).m, p_target_identifier, NoneVal) = Str(v_salma)
    /\ result = Response(MsgDenied)

\* the classification call returned an object without action_name to a
\* loaded caller of a served role
MissingActionName ==
    /\ pc = "done"
    /\ RouterGaveObject
    /\ ~routerOut.hasAction
    /\ user_role \in ServedRoles

\* C2 as stated: an object without action_name gets the rephrase-request
\* message.
C2_MissingActionNameGetsRephrase ==
    MissingActionName => result = Response(MsgRephrase)

\* C2 amended: an object without action_name gets the "cannot perform that
\* action due to your permissions or an unrecognized request" message of the
\* final else branch, and the coroutine does not raise.
C2_MissingActionNameGetsDenied ==
    MissingActionName => (result = Response(MsgDenied) /\ ~result.raised)

C2_Witness ==
    /\ MissingActionName
    /\ user_role = Str(s_hr)
    /\ routerOut.hasParams
    /\ result = Response(MsgDenied)

\* the dispatcher denied: an HR-only action for a non-hr caller, or an
\* action outside the closed enumeration
PermissionDenial ==
    /\ RouterGaveObject
    /\ routerOut.hasAction
    /\ \/ ActionName(routerOut) \in HrOnlyActions /\ user_role \in NonHrRoles
       \/ ActionName(routerOut) \notin ActionEnumeration

\* the classification call raised (its text being no JSON included), or
\* returned a JSON value that is no object
ClassificationFailed == routerOut.kind \in { "raise", "nonobject" }

\* C3 as stated: a permission denial gets the text a classification failure
\* gets.
C3_DenialLooksLikeFailure ==
    (pc = "done" /\ PermissionDenial) => result = Response(MsgRephrase)

\* C3 amended: every permission denial gets one fixed text whatever its
\* cause (role, or unrecognized action), and an object without action_name
\* gets that text too; a classification call that raises, returns non-JSON
\* or returns a non-object gets another fixed text, the rephrase request; the
\* two texts differ.
C3_DenialAndFailureTexts ==
    pc = "done" =>
        /\ (PermissionDenial \/ (RouterGaveObject /\ ~routerOut.hasAction))
              => result = Response(MsgDenied)
        /\ ClassificationFailed => result = Response(MsgRephrase)
        /\ Response(MsgDenied) # Response(MsgRephrase)

\* a new applicant asks for the applicant count
C3_Witness ==
    /\ pc = "done"
    /\ PermissionDenial
    /\ user_role = Str(s_new)
    /\ ActionName(routerOut) = a_get_applicant_count
    /\ result = Response(MsgDenied)

\* C4: with the store client present, the coroutine ends by returning a
\* text, never by raising, whatever the classification call, the store
\* calls and the records do.
C4_EndsByReturningText ==
    (dbClient /\ pc = "done") => (~result.raised /\ result # NoResult)

\* the caller's baseSalary is no number and its summary is asked for: the
\* format raises inside the try block
C4_Witness ==
    /\ pc = "done"
    /\ dbClient
    /\ ActionName(routerOut) = a_get_my_personal_info
    /\ Parameters(routerOut).t = "dict"
    /\ Get(Parameters(routerOut).m, p_field, NoneVal) = Str(s_all)
    /\ Get(user_doc.m, s_baseSalary, NoneVal) = Str(v_na)
    /\ get_personal_data(user_doc.m, Str(s_all)).raised
    /\ result = Response(MsgRephrase)

\* C5: a store call that raises, at whichever step, ends the request with a
\* response that is none of caller-not-found, target-not-found and
\* classification-failed, and the call is not repeated.
C5_StoreFailureHasItsOwnResponse ==
    (pc = "done" /\ calls.failed # "") =>
        /\ result.text \notin { MsgNoProfile, MsgNoSuchUser, MsgRephrase }
        /\ calls.fetch <= 1
        /\ calls.count <= 1
        /\ calls.query <= 2

\* the request got past loading the caller's record
PastLoad == pc \notin { "start", "load" }

\* C6 as stated: every caller record whose role is none of employee, new,
\* hr gets an empty menu and the role-not-configured text, and the
\* classification call is never made.
C6_UnservedRoleIsNotConfigured ==
    (CallerRecord.t = "dict" /\ CallerRecordRole \notin ServedRoles) =>
        /\ calls.router = 0
        /\ available_actions = << >>
        /\ (dbClient /\ calls.failed = "" /\ pc = "done") =>
              result = Return(MsgRoleNotConfigured,
                              << Arg(<< >>, "plain", CallerRecordRole) >>)

\* C6 amended: every caller record that holds at least one field and whose
\* role is none of employee, new, hr gets an empty menu and the
\* role-not-configured text; a caller record without any field gets the
\* profile-not-found text; in both cases the classification call is never made.
C6_UnservedRoleOfNonEmptyRecord ==
    (CallerRecord.t = "dict" /\ CallerRecordRole \notin ServedRoles) =>
        /\ calls.router = 0
        /\ available_actions = << >>
        /\ (dbClient /\ calls.failed = "" /\ pc = "done") =>
              result = IF CallerRecord.m # << >>
                       THEN Return(MsgRoleNotConfigured,
                                   << Arg(<< >>, "plain", CallerRecordRole) >>)
                       ELSE Response(MsgNoProfile)

\* the case variant "HR"
C6_Witness ==
    /\ pc = "done"
    /\ user_role = Str(v_HR)
    /\ calls.router = 0
    /\ result = Return(MsgRoleNotConfigured, << Arg(<< >>, "plain", Str(v_HR)) >>)

\* the store client is missing, the caller fetch failed, or there is no
\* (non-empty) record for caller_id
CallerNotLoaded ==
    \/ ~dbClient
    \/ calls.failed = "load"
    \/ ~Truthy(CallerRecord)

\* C7: when the caller cannot be loaded the request is over as soon as the
\* load step is, with an apologetic response; no menu has been built, the
\* classification call has not been made and no further store call either.
C7_FailedLoadEndsRequest ==
    (CallerNotLoaded /\ PastLoad) =>
        /\ pc = "done"
        /\ result \in { Response(MsgNoDatabase), Response(MsgNoProfile) }
        /\ user_role = NoneVal
        /\ available_actions = << >>
        /\ calls.router = 0
        /\ calls.lookup = 0
        /\ calls.query = 0
        /\ calls.count = 0
        /\ calls.fetch <= 1

\* the fetch of an hr caller's record raised
C7_Witness ==
    /\ pc = "done"
    /\ calls.failed = "load"
    /\ CallerRecordRole = Str(s_hr)
    /\ result = Response(MsgNoProfile)

\* an hr caller's request for information about anyone has ended, its
\* target resolved to a record and request_details being a string (or
\* missing, which stands for "all")
AnyoneResolved ==
    /\ pc = "done"
    /\ user_role = Str(s_hr)
    /\ RouterGaveObject
    /\ ActionName(routerOut) = a_get_information_about_anyone
    /\ Parameters(routerOut).t = "dict"
    /\ Get(Parameters(routerOut).m, p_request_details, Str(s_all)).t = "str"
    /\ calls.failed = ""
    /\ target_doc.t = "dict"

\* the keywords that make a request a document request
DocumentKeywords ==
    { << "d","o","c","u","m","e","n","t" >>,
      << "c","e","r","t","i","f","i","c","a","t","e" >>,
      << "i","d" >>,
      << "b","a","n","k" >>,
      << "s","u","b","m","i","s","s","i","o","n" >>,
      << "s","t","a","t","u","s" >>,
      << "u","p","l","o","a","d" >> }

\* C17: for an hr caller whose router result is get_information_about_anyone
\* with a target that resolves to a record, the Document-Status Matcher is
\* applied if and only if the lower-cased request_details contains one of
\* the keywords as a substring, otherwise the Field Formatter is applied;
\* either reads the target's record, which is a record of the store found
\* by its email or name, and request_details "salary" for Salma gives
\* Salma's total compensation.
C17_KeywordScanOnTarget ==
    AnyoneResolved =>
        LET details == Get(Parameters(routerOut).m, p_request_details, Str(s_all))
            keyword == \E kw \in DocumentKeywords : Contains(lower(details.s), kw)
        IN  /\ readOf = "target"
            /\ \E i \in 1..Len(store) :
                  /\ target_doc = Dict(store[i].doc)
                  /\ \/ Get(store[i].doc, s_email, NoneVal) = target_id
                     \/ Get(store[i].doc, s_name, NoneVal) = Str(title(target_id.s))
            /\ keyword => result = Caught(check_document_status(target_doc.m, details))
            /\ ~keyword => result = Caught(get_personal_data(target_doc.m, details))
            /\ (details = Str(s_salary) /\ target_doc = Dict(SalmaDoc)) =>
                  result = Return(MsgTotalCompensation,
                                  << Arg(<< >>, "plain", Str(n_Salma)),
                                     Arg(<< >>, "money", Num(12)) >>)

\* the spec's end-to-end example: hr asks for salma's salary, the caller's
\* own baseSalary being 10 and Salma's total 12
C17_Witness ==
    /\ AnyoneResolved
    /\ target_id = Str(v_salma)
    /\ Get(Parameters(routerOut).m, p_request_details, NoneVal) = Str(s_salary)
    /\ Get(user_doc.m, s_baseSalary, NoneVal) = Num(10)
    /\ result = Return(MsgTotalCompensation,
                       << Arg(<< >>, "plain", Str(n_Salma)),
                          Arg(<< >>, "money", Num(12)) >>)

\* a request has ended whose router result names an action of the caller's
\* menu, no store call having raised
PermittedActionDone ==
    /\ pc = "done"
    /\ RouterGaveObject
    /\ routerOut.hasAction
    /\ \E i \in 1..Len(available_actions) : available_actions[i] = routerOut.action
    /\ calls.failed = ""

\* the router result has no parameters key, or parameters is a mapping
\* without the entry k
LacksEntry(k) ==
    \/ ~routerOut.hasParams
    \/ routerOut.params.t = "dict" /\ ~HasKey(routerOut.params.m, k)

\* parameters is there and is no mapping
ParametersNoMapping == routerOut.hasParams /\ routerOut.params.t # "dict"

\* the request was turned down: a fixed text, no record helper applied, no
\* lookup and no count made
Rejected ==
    /\ ~result.raised
    /\ result.args = << >>
    /\ readOf = "none"
    /\ calls.lookup = 0
    /\ calls.count = 0

\* what C18 says of a missing parameters key or entry
MissingEntryPrompts ==
    /\ (routerOut.action = a_get_my_personal_info /\ LacksEntry(p_field))
          => result = Response(MsgSpecifyInfo)
    /\ (routerOut.action = a_check_my_document_status /\ LacksEntry(p_document_name))
          => result = Response(MsgSpecifyDocument)
    /\ (routerOut.action = a_get_information_about_anyone
          /\ LacksEntry(p_target_identifier))
          => (result = Response(MsgSpecifyPerson) /\ calls.lookup = 0)

\* C18 as stated: a permitted action whose parameters key or required
\* entry is missing gets the prompt of its action (and no lookup is made),
\* and a parameters value that is no mapping is rejected with a text,
\* whichever the permitted action.
C18_NonMappingAlwaysRejected ==
    PermittedActionDone =>
        /\ MissingEntryPrompts
        /\ ParametersNoMapping => Rejected

\* C18 amended: a permitted action whose parameters key or required entry
\* is missing gets the prompt of its action (and no lookup is made); a
\* parameters value that is no mapping is rejected with the rephrase text
\* for get_my_personal_info, check_my_document_status and
\* get_information_about_anyone, while get_applicant_count never reads
\* parameters and answers with the count.
C18_NonMappingRejectedWhereRead ==
    PermittedActionDone =>
        /\ MissingEntryPrompts
        /\ (ParametersNoMapping /\ routerOut.action # a_get_applicant_count)
              => (Rejected /\ result = Response(MsgRephrase))
        /\ (ParametersNoMapping /\ routerOut.action = a_get_applicant_count)
              => (calls.count = 1
                  /\ result = get_new_applicant_count(dbClient, store))

\* an hr caller asks about someone and the router result has no parameters
\* key: the specify-person prompt, no lookup
C18_Witness ==
    /\ PermittedActionDone
    /\ user_role = Str(s_hr)
    /\ routerOut.action = a_get_information_about_anyone
    /\ ~routerOut.hasParams
    /\ result = Response(MsgSpecifyPerson)
    /\ calls.lookup = 0

\* the positions that can follow a position: load is LOAD_CALLER, menu is
\* BUILD_MENU, route and routing are ROUTE, resolve_email and resolve_name
\* are RESOLVE_TARGET, count is the store call of EXECUTE, done is RESPOND;
\* VALIDATE_PERMISSION and the record helpers of EXECUTE run within the step
\* that leaves routing or RESOLVE_TARGET
StepSuccessors(p) ==
    CASE p = "start"         -> { "load", "done" }
      [] p = "load"          -> { "menu", "done" }
      [] p = "menu"          -> { "route", "done" }
      [] p = "route"         -> { "routing" }
      [] p = "routing"       -> { "count", "resolve_email", "done" }
      [] p = "resolve_email" -> { "resolve_name", "done" }
      [] p = "resolve_name"  -> { "done" }
      [] p = "count"         -> { "done" }
      [] OTHER               -> { }

\* each step was entered after the one before it succeeded
EnteredAfterSuccess ==
    /\ pc \in { "menu", "route", "routing", "count", "resolve_email",
                "resolve_name" }
          => (calls.fetch = 1 /\ Truthy(user_doc) /\ calls.failed = "")
    /\ pc \in { "route", "routing", "count", "resolve_email", "resolve_name" }
          => available_actions # << >>
    /\ pc \in { "count", "resolve_email", "resolve_name" }
          => /\ calls.router = 1
             /\ routerOut.kind = "object"
             /\ ActionName(routerOut) \in HrOnlyActions
             /\ user_role = Str(s_hr)
    /\ pc \in { "resolve_email", "resolve_name" } => Truthy(target_id)

\* C16: the steps of a request follow one another only in the order
\* LOAD_CALLER, BUILD_MENU, ROUTE, VALIDATE_PERMISSION, (RESOLVE_TARGET),
\* EXECUTE, RESPOND, each entered only after the one before it succeeded;
\* the caller record is fetched at most once, the classification call is
\* made at most once, at most one of target lookup and applicant count is
\* performed and at most once, and after a failure nothing more is done.
C16_StepsInOrderAtMostOnce ==
    /\ [][/\ pc' \in StepSuccessors(pc)
          /\ calls.failed = ""]_vars
    /\ [](/\ EnteredAfterSuccess
          /\ calls.fetch <= 1
          /\ calls.router <= 1
          /\ calls.lookup + calls.count <= 1
          /\ calls.query <= 2 * calls.lookup
          /\ calls.failed # "" => pc = "done")

\* an hr caller's request that went through every step: the caller's
\* fetch, the classification call, the lookup with its two queries, the
\* matcher on the target
C16_Witness ==
    /\ pc = "done"
    /\ calls = [fetch |-> 1, router |-> 1, lookup |-> 1, query |-> 2,
                count |-> 0, failed |-> ""]
    /\ target_doc = Dict(SalmaDoc)
    /\ readOf = "target"
    /\ result.text = MsgNoDocInfo

\* the role in the record as it was loaded at LOAD_CALLER
LoadedRole == Get(user_doc.m, s_role, Str(s_unknown))

\* the request is past BUILD_MENU with a menu
MenuBuilt ==
    \/ pc \in { "route", "routing", "count", "resolve_email", "resolve_name" }
    \/ pc = "done" /\ calls.router = 1

\* the classification call returned an object choosing an HR-only action
\* and the request is past VALIDATE_PERMISSION, no store call having raised
HrOnlyChosen ==
    /\ pc \in { "count", "resolve_email", "resolve_name", "done" }
    /\ RouterGaveObject
    /\ routerOut.hasAction
    /\ routerOut.action \in HrOnlyActions
    /\ calls.failed = ""

\* C19: the caller's record is read once; the menu given to the classifier
\* and the hr gate both use the role of that one reading, so an HR-only
\* action passes the gate exactly when it is in the menu; and when the
\* external system changes the caller's role in the store after
\* LOAD_CALLER, the request executes the actions the loaded role allows,
\* not those of the role now in the store.
C19_RoleSnapshot ==
    /\ calls.fetch <= 1
    /\ MenuBuilt =>
          /\ user_role = LoadedRole
          /\ available_actions = MenuFor(LoadedRole)
    /\ HrOnlyChosen =>
          LET inMenu == \E i \in 1..Len(available_actions) :
                            available_actions[i] = routerOut.action
              passed == \/ pc # "done"
                        \/ result # Response(MsgDenied)
          IN  /\ passed <=> inMenu
              /\ passed <=> LoadedRole = Str(s_hr)
              /\ (pc = "done" /\ routerOut.action = a_get_applicant_count)
                    => (calls.count = 1 <=> LoadedRole = Str(s_hr))
              /\ (pc = "done" /\ LoadedRole # Str(s_hr))
                    => (calls.count = 0 /\ calls.lookup = 0)

\* an hr caller demoted to employee while the classification call is in
\* flight still gets the applicant count
C19_Witness ==
    /\ pc = "done"
    /\ LoadedRole = Str(s_hr)
    /\ CallerRecordRole = Str(s_employee)
    /\ routerOut.action = a_get_applicant_count
    /\ calls.count = 1
    /\ calls.failed = ""
    /\ result.text \in { MsgNoApplicants, MsgOneApplicant }

(***************************************************************************)
(* Properties of two concurrent requests                                   *)
(***************************************************************************)
\* every response the request of caller id gives when it runs alone over
\* the collection st, the classification call producing out and the store
\* call named by failed ("" for none) raising
AloneResponses(db, st, id, out, failed) ==
    IF ~db
    THEN { Response(MsgNoDatabase) }
    ELSE LET doc == IF failed = "load" THEN NoneVal ELSE StoreGet(st, id)
         IN  IF ~Truthy(doc)
             THEN { Response(MsgNoProfile) }
             ELSE LET role == Get(doc.m, s_role, Str(s_unknown))
                      step == Dispatch(doc, role, out)
                  IN  IF MenuFor(role) = << >>
                      THEN { Return(MsgRoleNotConfigured,
                                    << Arg(<< >>, "plain", role) >>) }
                      ELSE IF out.kind = "raise" \/ failed # ""
                      THEN { Response(MsgRephrase) }
                      ELSE IF step.next = "done"
                      THEN { Caught(step.result) }
                      ELSE IF step.next = "count"
                      THEN { Caught(get_new_applicant_count(db, st)) }
                      ELSE { IF r.raised
                             THEN Response(MsgRephrase)
                             ELSE Caught(ExecuteOnTarget(r.doc, step.target_id,
                                                         Parameters(out)).result) :
                               r \in get_user_by_identifier(db, st, step.target_id) }

\* a request that is over returned what it returns when run alone
AsAlone(f) ==
    f.pc = "done" =>
        f.result \in AloneResponses(dbClient, store, f.callerId, f.routerOut,
                                    f.calls.failed)

\* C15: no step of a request writes the collection or the client, and in
\* every interleaving of the steps of two requests (same caller or not) each
\* request returns the response it returns when it runs alone.
C15_RequestsIndependent ==
    /\ [][store' = store /\ dbClient' = dbClient]_vars
    /\ [](AsAlone(Frame) /\ AsAlone(peer))

\* the hr caller's request ends with Salma's compensation while the request
\* of Salma, loaded, rests at its classification call
C15_Witness ==
    /\ pc = "done"
    /\ callerId = "u1"
    /\ calls.lookup = 1
    /\ result.text = MsgTotalCompensation
    /\ peer.pc = "routing"
    /\ peer.callerId = "u2"
    /\ peer.user_doc = Dict(SalmaDoc)

(***************************************************************************)
(* Progress of one request                                                 *)
(***************************************************************************)
\* The event loop runs the coroutine whenever it can run, and a call to the
\* store ends, by returning or by raising.  Nothing is assumed of
\* chain.ainvoke: lines 156-159 and 191 give the call no deadline, so it may
\* stay pending.
SpecLive ==
    /\ Init
    /\ [][Next]_vars
    /\ WF_vars(Start)
    /\ WF_vars(LoadCaller \/ LoadCallerFails)
    /\ WF_vars(BuildMenu)
    /\ WF_vars(InvokeRouter)
    /\ WF_vars(CountReturns \/ EmailQueryReturns \/ NameQueryReturns
                 \/ StoreQueryFails)

\* C14: every request eventually ends with a response, also when the
\* classification call never returns.
C14_EveryRequestResponds == <>(pc = "done")

====
